---- MODULE Spec2Model ----
(***************************************************************************)
(* Model of listenbrainz/spotify_metadata_cache/spotify_lookup_queue.py:   *)
(* the UniqueQueue (a PriorityQueue paired with a membership set), the     *)
(* SpotifyIdsQueue worker thread (run / process_spotify_id / fetch_album / *)
(* discover_albums / insert_album), its producers (add_spotify_ids) and    *)
(* terminate().                                                            *)
(*                                                                         *)
(* Strings that the code orders, hashes or splits are sequences of         *)
(* one-character strings.                                                  *)
(***************************************************************************)
EXTENDS Integers, Sequences, FiniteSets, Bags, TLC

\* ------------------------------------------------------------------------
\* Bounds of the model
\* ------------------------------------------------------------------------

\* number of add_spotify_ids calls made by the producer threads in one
\* behaviour
MaxSubmits == 2

\* number of add_spotify_ids calls in one behaviour of SpecCache
MaxCacheSubmits == 1

\* number of times the environment removes a cache key (expiry, eviction)
MaxCacheClears == 2

\* largest reading of the monotonic clock
MaxClock == 120

\* largest reading of the wall clock (in ticks of 1/TicksPerSecond seconds)
MaxUtc == 1

\* number of calls (Spotify, PostgreSQL, Redis) that raise in one behaviour
MaxFailures == 1

\* resolution of the wall clock: ticks per second
TicksPerSecond == 2

\* ------------------------------------------------------------------------
\* Program constants
\* ------------------------------------------------------------------------

UPDATE_INTERVAL == 60

CACHE_TIME == 180

DISCOVERED_ALBUM_PRIORITY == 1

INCOMING_ALBUM_PRIORITY == 0

CACHE_KEY_PREFIX ==
    <<"s", "p", "o", "t", "i", "f", "y", ":", "a", "l", "b", "u", "m", ":">>

\* ------------------------------------------------------------------------
\* Strings
\* ------------------------------------------------------------------------

\* code points of the characters the model uses (Python orders str by code
\* point)
Ord(c) ==
    CASE c = "/" -> 47
      [] c = "a" -> 97
      [] c = "b" -> 98
      [] c = "c" -> 99

\* str.__lt__: lexicographic order by code point, a proper prefix is smaller
RECURSIVE StrLt(_, _)
StrLt(s, t) ==
    IF t = <<>> THEN FALSE
    ELSE IF s = <<>> THEN TRUE
    ELSE IF Head(s) # Head(t) THEN Ord(Head(s)) < Ord(Head(t))
    ELSE StrLt(Tail(s), Tail(t))

\* album_id.split("/")[-1]: what follows the last "/" (everything when there
\* is none)
RECURSIVE SplitLast(_)
SplitLast(s) ==
    IF s = <<>> THEN <<>>
    ELSE LET rest == SplitLast(Tail(s))
         IN  IF \E i \in 1..Len(Tail(s)) : Tail(s)[i] = "/"
             THEN rest
             ELSE IF Head(s) = "/" THEN Tail(s) ELSE s

\* ------------------------------------------------------------------------
\* JobItem
\* ------------------------------------------------------------------------

Priorities == {INCOMING_ALBUM_PRIORITY, DISCOVERED_ALBUM_PRIORITY}

JobItem(priority, spotify_id) ==
    [priority |-> priority, spotify_id |-> spotify_id]

\* dataclass(order=True): JobItem.__lt__ compares (priority, spotify_id)
ItemLtSwapped(d, e) ==
    \/ d.priority > e.priority
    \/ d.priority = e.priority /\ StrLt(d.spotify_id, e.spotify_id)

ItemLt(d, e) ==
    \/ d.priority < e.priority
    \/ d.priority = e.priority /\ StrLt(d.spotify_id, e.spotify_id)

\* dataclass(eq=True, frozen=True): __eq__ and __hash__ use both fields, so
\* membership in a set of JobItems is membership of the pair
ItemIn(d, s) == \E e \in s : e.priority = d.priority /\ e.spotify_id = d.spotify_id

\* ------------------------------------------------------------------------
\* The catalog served by the Spotify API (sp.album, sp.album_tracks,
\* sp.artist_albums, sp.next), and the identifiers callers submit
\* ------------------------------------------------------------------------

IdA == <<"a">>

IdB == <<"b">>

IdC == <<"c">>

AlbumIds == {IdA, IdB, IdC}

\* the album_id arguments of add_spotify_ids
AlbumUrls == { <<"b", "/", "a">>, <<"b">> }

Track(artists) == [artists |-> artists]

\* the pages of sp.album_tracks(album_id): a has two pages, b one, c has no
\* tracks; "" is an artist without id
TrackPages(album_id) ==
    CASE album_id = IdA -> << <<Track(<<"p">>)>>, <<Track(<<"q", "">>)>> >>
      [] album_id = IdB -> << <<Track(<<"p">>)>> >>
      [] OTHER -> << <<>> >>

\* the pages of sp.artist_albums(artist_id), as album ids
ArtistAlbumPages(artist_id) ==
    CASE artist_id = "p" -> << <<IdA>>, <<IdC>> >>
      [] artist_id = "q" -> << <<IdB, IdC>> >>
      [] OTHER -> << <<>> >>

ArtistIds == {"p", "q"}

\* the time zones the model runs the process in
TimeZones == {"UTC", "Asia/Tokyo", "America/New_York"}

\* ------------------------------------------------------------------------
\* State
\* ------------------------------------------------------------------------

VARIABLES
    queue,               \* UniqueQueue.queue: the PriorityQueue, a bag of JobItems
    set,                 \* UniqueQueue.set
    done,                \* SpotifyIdsQueue.done
    discovered_artists,  \* SpotifyIdsQueue.discovered_artists
    stats,               \* SpotifyIdsQueue.stats
    cache,               \* the Redis keys written by cache.set / cache.expireat
    store,               \* mapping.spotify_metadata_cache: a set of rows
    wpc,                 \* where the worker thread is in run()
    w,                   \* the worker thread's locals; w.reput records the
                         \* priorities of the puts of its item's id that
                         \* began since the get, w.own_put that
                         \* discover_albums added it
    update_time,         \* run()'s update_time
    clock,               \* last reading of monotonic()
    utc,                 \* last reading of datetime.utcnow()
    tz,                  \* the local time zone of the process
    log,                 \* what the worker has logged and reported
    call,                \* what the current process_spotify_id call has done
    ppc,                 \* where each producer thread is in UniqueQueue.put
    pitem,               \* the JobItem each producer is putting
    put_ret,             \* what the last UniqueQueue.put of each producer
                         \* returned: <<>> before it returns
    submits,             \* number of add_spotify_ids calls so far
    clears,              \* number of cache keys dropped by the environment so far
    tpc,                 \* where the caller of terminate() is
    started              \* Thread._started: Thread.start() was called

vars == <<queue, set, done, discovered_artists, stats, cache, store, wpc, w,
          update_time, clock, utc, tz, log, call, ppc, pitem, put_ret,
          submits, clears, tpc, started>>

Producers == {"p1", "p2"}

NoItem == [priority |-> -1, spotify_id |-> <<>>]

NoMarker == [present |-> FALSE, expire |-> -1]

CacheKey(spotify_id) == CACHE_KEY_PREFIX \o spotify_id

NoLocals ==
    [item |-> NoItem, album |-> <<>>, page |-> 0, tracks |-> <<>>,
     todo |-> <<>>, albums |-> <<>>, apage |-> 0, last_refresh |-> -1,
     expires_at |-> -1, reput |-> {}, own_put |-> FALSE]

NoCall == [cached |-> FALSE, api |-> 0, expands |-> 0, writes |-> 0, outcome |-> "none"]

Init ==
    /\ queue = EmptyBag
    /\ set = {}
    /\ done = FALSE
    /\ discovered_artists = {}
    /\ stats = [discovered_albums |-> 0, albums_inserted |-> 0]
    /\ cache = [k \in {CacheKey(a) : a \in AlbumIds} |-> NoMarker]
    /\ store = {}
    /\ wpc = "init"
    /\ w = NoLocals
    /\ update_time = 0
    /\ clock = 0
    /\ utc = 0
    /\ tz \in TimeZones
    /\ log = [tracebacks |-> 0, key_errors |-> 0, reports |-> 0, finished |-> FALSE]
    /\ call = NoCall
    /\ ppc = [p \in Producers |-> "idle"]
    /\ pitem = [p \in Producers |-> NoItem]
    /\ put_ret = [p \in Producers |-> <<>>]
    /\ submits = 0
    /\ clears = 0
    /\ tpc = "idle"
    /\ started = FALSE

\* ------------------------------------------------------------------------
\* UniqueQueue
\* ------------------------------------------------------------------------

\* put, line 40: `d not in self.set`
PutTest(d, s) == ~ItemIn(d, s)

\* put, line 41: self.queue.put(d)
PutEnqueue(q, d) == q (+) SetToBag({d})

\* put, line 42: self.set.add(d)
PutAdd(s, d) == s \cup {d}

\* PriorityQueue.get on a non-empty queue: heappop, the least JobItem
QueueHead(q) ==
    CHOOSE d \in BagToSet(q) : \A e \in BagToSet(q) : ~ItemLt(e, d)

\* get, line 47: d = self.queue.get(), which blocks while the queue is empty
GetDequeueKeeps(q) == q

GetDequeue(q) == q (-) SetToBag({QueueHead(q)})

\* get, line 48: self.set.remove(d), a KeyError when d is not in the set
GetRemove(s, d) ==
    IF d \in s THEN [set |-> s \ {d}, error |-> FALSE] ELSE [set |-> s, error |-> TRUE]

\* UniqueQueue.size
QueueSize(q) == BagCardinality(q)

\* ------------------------------------------------------------------------
\* Clocks
\* ------------------------------------------------------------------------

\* what monotonic() can return when its last reading was c
ClockReadings(c) == {t \in {c, c + UPDATE_INTERVAL} : t <= MaxClock}

\* what datetime.utcnow() can return when its last reading was u
UtcReadings(u) == {t \in {u, u + 1} : t <= MaxUtc}

\* timedelta(days=CACHE_TIME), in ticks
CacheTimeTicks == CACHE_TIME * 24 * 60 * 60 * TicksPerSecond

\* the offset of local time from UTC in the zone, in seconds, at the instants
\* the model's expires_at fall on (180 days after the origin of the wall
\* clock, 1970-01-01: daylight saving time in New York)
UtcOffset(zone) ==
    CASE zone = "UTC" -> 0
      [] zone = "Asia/Tokyo" -> 32400
      [] zone = "America/New_York" -> -14400
      [] zone = "Europe/Berlin" -> 3600

\* int(expires_at.timestamp()): expires_at is a naive datetime that holds
\* UTC, timestamp() reads a naive datetime as local time; whole seconds, the
\* fraction dropped
Timestamp(t, zone) == (t \div TicksPerSecond) - UtcOffset(zone)

\* ------------------------------------------------------------------------
\* Producers: add_spotify_ids
\* ------------------------------------------------------------------------

\* the record in w.reput of a put of d that begins
Reput(locals, d) ==
    IF locals.item # NoItem /\ locals.item.spotify_id = d.spotify_id
    THEN [locals EXCEPT !.reput = @ \cup {d.priority}]
    ELSE locals

\* add_spotify_ids, lines 88-89, up to the call of UniqueQueue.put
P_call(p, album_id, priority) ==
    /\ submits < MaxSubmits
    /\ ppc[p] = "idle"
    /\ pitem' = [pitem EXCEPT ![p] = JobItem(priority, SplitLast(album_id))]
    /\ ppc' = [ppc EXCEPT ![p] = "test"]
    /\ put_ret' = [put_ret EXCEPT ![p] = <<>>]
    /\ submits' = submits + 1
    /\ UNCHANGED <<queue, set, done, discovered_artists, stats, cache, store,
                   wpc, w, update_time, clock, utc, tz, log, call,
                   clears, tpc, started>>

\* put, line 40 (and line 44 when the item is in the set)
P_test(p) ==
    /\ ppc[p] = "test"
    /\ IF PutTest(pitem[p], set)
       THEN /\ ppc' = [ppc EXCEPT ![p] = "enqueue"]
            /\ UNCHANGED put_ret
       ELSE /\ ppc' = [ppc EXCEPT ![p] = "idle"]
            /\ put_ret' = [put_ret EXCEPT ![p] = <<FALSE>>]
    /\ w' = Reput(w, pitem[p])
    /\ UNCHANGED <<queue, set, done, discovered_artists, stats, cache, store,
                   wpc, update_time, clock, utc, tz, log, call, pitem, submits,
                   clears, tpc, started>>

\* put, line 41
P_enqueue(p) ==
    /\ ppc[p] = "enqueue"
    /\ queue' = PutEnqueue(queue, pitem[p])
    /\ ppc' = [ppc EXCEPT ![p] = "add"]
    /\ UNCHANGED <<set, done, discovered_artists, stats, cache, store, wpc, w,
                   update_time, clock, utc, tz, log, call, pitem, put_ret,
                   submits, clears, tpc, started>>

\* put, lines 42-43
P_add(p) ==
    /\ ppc[p] = "add"
    /\ set' = PutAdd(set, pitem[p])
    /\ ppc' = [ppc EXCEPT ![p] = "idle"]
    /\ put_ret' = [put_ret EXCEPT ![p] = <<TRUE>>]
    /\ UNCHANGED <<queue, done, discovered_artists, stats, cache, store, wpc, w,
                   update_time, clock, utc, tz, log, call, pitem, submits,
                   clears, tpc, started>>

\* ------------------------------------------------------------------------
\* terminate() and Thread.start()
\* ------------------------------------------------------------------------

\* Thread.start(), inherited by SpotifyIdsQueue (line 58): it returns once
\* the new thread has set Thread._started; run() has not begun. A second
\* start() raises RuntimeError in its caller and changes nothing.
Start ==
    /\ started = FALSE
    /\ started' = TRUE
    /\ UNCHANGED <<queue, set, done, discovered_artists, stats, cache, store,
                   wpc, w, update_time, clock, utc, tz, log, call, ppc, pitem,
                   put_ret, submits, clears, tpc>>

\* terminate, line 92
T_call ==
    /\ tpc = "idle"
    /\ done' = TRUE
    /\ tpc' = "called"
    /\ UNCHANGED <<queue, set, discovered_artists, stats, cache, store, wpc, w,
                   update_time, clock, utc, tz, log, call, ppc, pitem, put_ret,
                   submits, clears, started>>

\* terminate, line 93, the call of join(): join() raises RuntimeError on a
\* thread whose Thread._started is not set, and waits otherwise
T_check ==
    /\ tpc = "called"
    /\ tpc' = IF started THEN "join" ELSE "error"
    /\ UNCHANGED <<queue, set, done, discovered_artists, stats, cache, store,
                   wpc, w, update_time, clock, utc, tz, log, call, ppc, pitem,
                   put_ret, submits, clears, started>>

\* terminate, line 93: join() returns once run() has returned
T_join ==
    /\ tpc = "join"
    /\ wpc = "finished"
    /\ tpc' = "returned"
    /\ UNCHANGED <<queue, set, done, discovered_artists, stats, cache, store,
                   wpc, w, update_time, clock, utc, tz, log, call, ppc, pitem,
                   put_ret, submits, clears, started>>

\* ------------------------------------------------------------------------
\* The environment of the cache: a key expires or is evicted
\* ------------------------------------------------------------------------

CacheDrop(k) ==
    /\ clears < MaxCacheClears
    /\ cache[k].present
    /\ cache' = [cache EXCEPT ![k] = NoMarker]
    /\ clears' = clears + 1
    /\ UNCHANGED <<queue, set, done, discovered_artists, stats, store, wpc, w,
                   update_time, clock, utc, tz, log, call, ppc, pitem, put_ret,
                   submits, tpc, started>>

\* ------------------------------------------------------------------------
\* The environment of the clock: time passes while no thread reads it
\* ------------------------------------------------------------------------

Tick ==
    /\ clock + UPDATE_INTERVAL <= MaxClock
    /\ clock' = clock + UPDATE_INTERVAL
    /\ UNCHANGED <<queue, set, done, discovered_artists, stats, cache, store,
                   wpc, w, update_time, utc, tz, log, call, ppc, pitem, put_ret,
                   submits, clears, tpc, started>>

\* ------------------------------------------------------------------------
\* The worker thread: run()
\* ------------------------------------------------------------------------

\* run, lines 201-202: `except Exception` logs and the while loop goes on
ExceptionPc == "loop"

\* a call of an external service (Spotify, PostgreSQL, Redis, the metrics
\* sink) may raise
CanFail == log.tracebacks - log.key_errors < MaxFailures

Outcomes == {TRUE} \cup {ok \in {FALSE} : CanFail}

\* an exception raised inside the try block of run(), caught at line 201:
\* the traceback that is logged names the exception
Raised(exc) ==
    /\ wpc' = ExceptionPc
    /\ w' = NoLocals
    /\ log' = [log EXCEPT !.tracebacks = @ + 1,
                          !.key_errors = @ + (IF exc = "KeyError" THEN 1 ELSE 0)]
    /\ call' = NoCall

\* run, lines 186-190, in the thread that Thread.start() has created; the
\* origin of monotonic() is arbitrary, the model puts it at the clock of Init
W_start ==
    /\ wpc = "init"
    /\ started
    /\ update_time' = clock + UPDATE_INTERVAL
    /\ wpc' = "loop"
    /\ UNCHANGED <<queue, set, done, discovered_artists, stats, cache, store, w,
                   clock, utc, tz, log, call, ppc, pitem, put_ret,
                   submits, clears, tpc, started>>

\* run, line 191: `while not self.done`
LoopExitsNever(d) == FALSE

LoopExits(d) == d

\* run, lines 191 and 204
W_loop ==
    /\ wpc = "loop"
    /\ IF LoopExits(done)
       THEN /\ wpc' = "finished"
            /\ log' = [log EXCEPT !.finished = TRUE]
       ELSE /\ wpc' = "get"
            /\ UNCHANGED log
    /\ UNCHANGED <<queue, set, done, discovered_artists, stats, cache, store, w,
                   update_time, clock, utc, tz, call, ppc, pitem, put_ret,
                   submits, clears, tpc, started>>

\* run, line 193, and get, line 47: PriorityQueue.get blocks while the queue
\* is empty
W_dequeue ==
    /\ wpc = "get"
    /\ queue # EmptyBag
    /\ queue' = GetDequeue(queue)
    /\ w' = [NoLocals EXCEPT !.item = QueueHead(queue)]
    /\ wpc' = "remove"
    /\ UNCHANGED <<set, done, discovered_artists, stats, cache, store,
                   update_time, clock, utc, tz, log, call, ppc, pitem, put_ret,
                   submits, clears, tpc, started>>

\* get, lines 48-49
W_remove ==
    /\ wpc = "remove"
    /\ LET r == GetRemove(set, w.item)
       IN  /\ set' = r.set
           /\ IF r.error
              THEN Raised("KeyError")
              ELSE /\ wpc' = "gate"
                   /\ UNCHANGED <<w, log, call>>
    /\ UNCHANGED <<queue, done, discovered_artists, stats, cache, store,
                   update_time, clock, utc, tz, ppc, pitem, put_ret, submits,
                   clears, tpc, started>>

\* process_spotify_id, line 178: `cache.get(cache_key) is not None`
GateHitNever(c, spotify_id) == FALSE

GateHit(c, spotify_id) == c[CacheKey(spotify_id)].present

\* process_spotify_id, lines 177-179: cache.get may raise
W_gate ==
    /\ wpc = "gate"
    /\ \E ok \in Outcomes :
          IF ok
          THEN /\ IF GateHit(cache, w.item.spotify_id)
                  THEN /\ wpc' = "report"
                       /\ call' = [call EXCEPT !.cached = TRUE,
                                               !.outcome = "cached"]
                  ELSE /\ wpc' = "album"
                       /\ UNCHANGED call
               /\ UNCHANGED <<w, log>>
          ELSE Raised("Exception")
    /\ UNCHANGED <<queue, set, done, discovered_artists, stats, cache, store,
                   update_time, clock, utc, tz, ppc, pitem, put_ret,
                   submits, clears, tpc, started>>

\* fetch_album, line 112: sp.album(album_id); the album object carries the
\* first page of its tracks as a paging object
W_album ==
    /\ wpc = "album"
    /\ \E ok \in Outcomes :
          IF ok
          THEN /\ w' = [w EXCEPT !.album =
                            [id |-> w.item.spotify_id,
                             tracks |-> [paging |-> TRUE,
                                         items |-> TrackPages(w.item.spotify_id)[1]]]]
               /\ wpc' = "tracks"
               /\ call' = [call EXCEPT !.api = @ + 1]
               /\ UNCHANGED log
          ELSE Raised("Exception")
    /\ UNCHANGED <<queue, set, done, discovered_artists, stats, cache, store,
                   update_time, clock, utc, tz, ppc, pitem, put_ret,
                   submits, clears, tpc, started>>

\* fetch_album, lines 114-117: sp.album_tracks(album_id, limit=50)
W_tracks ==
    /\ wpc = "tracks"
    /\ \E ok \in Outcomes :
          IF ok
          THEN LET items == TrackPages(w.item.spotify_id)[1]
               IN  /\ w' = [w EXCEPT !.page = 1, !.tracks = items]
                   /\ wpc' = IF items = <<>> THEN "insert" ELSE "next"
                   /\ call' = [call EXCEPT !.api = @ + 1]
                   /\ UNCHANGED log
          ELSE Raised("Exception")
    /\ UNCHANGED <<queue, set, done, discovered_artists, stats, cache, store,
                   update_time, clock, utc, tz, ppc, pitem, put_ret,
                   submits, clears, tpc, started>>

\* fetch_album, lines 124-127: the artist ids discover_albums is called with,
\* in order: every artist with a non-empty id of every track
RECURSIVE TruthyIds(_)
TruthyIds(artists) ==
    IF artists = <<>> THEN <<>>
    ELSE (IF Head(artists) # "" THEN <<Head(artists)>> ELSE <<>>)
         \o TruthyIds(Tail(artists))

RECURSIVE ArtistsOf(_)
ArtistsOf(tracks) ==
    IF tracks = <<>> THEN <<>>
    ELSE TruthyIds(Head(tracks).artists) \o ArtistsOf(Tail(tracks))

\* fetch_album, line 119: results.get("next")
HasNext(pages, page) == page < Len(pages)

\* fetch_album, lines 119-123 and 131: one more page, or the return
W_next ==
    /\ wpc = "next"
    /\ IF HasNext(TrackPages(w.item.spotify_id), w.page)
       THEN \E ok \in Outcomes :
               IF ok
               THEN LET tracks == w.tracks \o TrackPages(w.item.spotify_id)[w.page + 1]
                    IN  /\ w' = [w EXCEPT !.page = @ + 1, !.tracks = tracks,
                                          !.todo = ArtistsOf(tracks)]
                        /\ wpc' = "discover"
                        /\ call' = [call EXCEPT !.api = @ + 1]
                        /\ UNCHANGED log
               ELSE Raised("Exception")
       ELSE /\ wpc' = "insert"
            /\ UNCHANGED <<w, call, log>>
    /\ UNCHANGED <<queue, set, done, discovered_artists, stats, cache, store,
                   update_time, clock, utc, tz, ppc, pitem, put_ret,
                   submits, clears, tpc, started>>

\* discover_albums, line 134: `artist_id in self.discovered_artists`
AlreadyDiscoveredNever(artist_id, discovered) == FALSE

AlreadyDiscovered(artist_id, discovered) == artist_id \in discovered

\* fetch_album, lines 124-129, and discover_albums, lines 134-139: the next
\* call of discover_albums up to its first request, sp.artist_albums
W_discover ==
    /\ wpc = "discover"
    /\ IF w.todo = <<>>
       THEN /\ w' = [w EXCEPT !.album.tracks = [paging |-> FALSE, items |-> w.tracks]]
            /\ wpc' = "next"
            /\ UNCHANGED <<discovered_artists, call, log>>
       ELSE LET artist_id == Head(w.todo)
                pages == ArtistAlbumPages(artist_id)
            IN  IF AlreadyDiscovered(artist_id, discovered_artists)
                THEN /\ w' = [w EXCEPT !.todo = Tail(@)]
                     /\ call' = [call EXCEPT !.expands = @ + 1]
                     /\ UNCHANGED <<wpc, discovered_artists, log>>
                ELSE /\ discovered_artists' = discovered_artists \cup {artist_id}
                     /\ \E ok \in Outcomes :
                           IF ok
                           THEN /\ w' = [w EXCEPT !.albums = pages[1], !.apage = 1]
                                /\ wpc' = "expand"
                                /\ call' = [call EXCEPT !.expands = @ + 1,
                                                        !.api = @ + 1]
                                /\ UNCHANGED log
                           ELSE Raised("Exception")
    /\ UNCHANGED <<queue, set, done, stats, cache, store, update_time, clock,
                   utc, tz, ppc, pitem, put_ret, submits, clears, tpc, started>>

\* discover_albums, lines 140-143: one more page of the artist's albums, or
\* the end of the while loop
W_expand ==
    /\ wpc = "expand"
    /\ IF HasNext(ArtistAlbumPages(Head(w.todo)), w.apage)
       THEN \E ok \in Outcomes :
               IF ok
               THEN /\ w' = [w EXCEPT !.albums =
                                 @ \o ArtistAlbumPages(Head(w.todo))[w.apage + 1],
                                     !.apage = @ + 1]
                    /\ call' = [call EXCEPT !.api = @ + 1]
                    /\ UNCHANGED <<wpc, log>>
               ELSE Raised("Exception")
       ELSE /\ wpc' = "put"
            /\ UNCHANGED <<w, call, log>>
    /\ UNCHANGED <<queue, set, done, discovered_artists, stats, cache, store,
                   update_time, clock, utc, tz, ppc, pitem, put_ret,
                   submits, clears, tpc, started>>

\* discover_albums, lines 147-148: the counter of discovered albums
CountDiscovered(st, was_added) ==
    IF was_added THEN [st EXCEPT !.discovered_albums = @ + 1] ELSE st

\* discover_albums, line 145: the next round of the for loop, or its end;
\* line 146 up to line 40 of put, and lines 44 and 147 when the item is in
\* the set
W_put ==
    /\ wpc = "put"
    /\ IF w.albums = <<>>
       THEN /\ w' = [w EXCEPT !.todo = Tail(@), !.apage = 0]
            /\ wpc' = "discover"
            /\ UNCHANGED stats
       ELSE LET d == JobItem(DISCOVERED_ALBUM_PRIORITY, Head(w.albums))
            IN  IF PutTest(d, set)
                THEN /\ w' = Reput(w, d)
                     /\ wpc' = "put_enqueue"
                     /\ UNCHANGED stats
                ELSE /\ w' = [Reput(w, d) EXCEPT !.albums = Tail(@)]
                     /\ stats' = CountDiscovered(stats, FALSE)
                     /\ UNCHANGED wpc
    /\ UNCHANGED <<queue, set, done, discovered_artists, cache, store,
                   update_time, clock, utc, tz, log, call, ppc, pitem, put_ret,
                   submits, clears, tpc, started>>

\* put, line 41, called at line 146
W_put_enqueue ==
    /\ wpc = "put_enqueue"
    /\ queue' = PutEnqueue(queue, JobItem(DISCOVERED_ALBUM_PRIORITY, Head(w.albums)))
    /\ wpc' = "put_add"
    /\ UNCHANGED <<set, done, discovered_artists, stats, cache, store, w,
                   update_time, clock, utc, tz, log, call, ppc, pitem, put_ret,
                   submits, clears, tpc, started>>

\* put, lines 42-43, called at line 146, and lines 147-148
W_put_add ==
    /\ wpc = "put_add"
    /\ set' = PutAdd(set, JobItem(DISCOVERED_ALBUM_PRIORITY, Head(w.albums)))
    /\ stats' = CountDiscovered(stats, TRUE)
    /\ w' = [w EXCEPT !.albums = Tail(@),
                      !.own_put = @ \/ Head(w.albums) = w.item.spotify_id]
    /\ wpc' = "put"
    /\ UNCHANGED <<queue, done, discovered_artists, cache, store, update_time,
                   clock, utc, tz, log, call, ppc, pitem, put_ret, submits,
                   clears, tpc, started>>

\* a row of mapping.spotify_metadata_cache
Row(album_id, data, last_refresh, expires_at) ==
    [album_id |-> album_id, data |-> data, last_refresh |-> last_refresh,
     expires_at |-> expires_at]

\* the rows of the table with this album_id
RowsOf(rows, album_id) == {r \in rows : r.album_id = album_id}

\* insert_album, line 165: ujson.dumps(data), a str and no longer a dict
Dumps(data) == [json |-> data]

\* insert_album, lines 154-162: INSERT ... ON CONFLICT (album_id) DO UPDATE SET
\* data, last_refresh, expires_at = those of the new row
UpsertAppend(rows, row) == rows \cup {row}

UpsertNothing(rows, row) == rows

Upsert(rows, row) == (rows \ RowsOf(rows, row.album_id)) \cup {row}

\* insert_album, lines 151-168: the two readings of utcnow and the upsert;
\* the transaction rolls back when it raises
W_insert ==
    /\ wpc = "insert"
    /\ \E t1 \in UtcReadings(utc) : \E t2 \in UtcReadings(t1) : \E ok \in Outcomes :
          /\ utc' = t2
          /\ IF ok
             THEN /\ store' = Upsert(store,
                                  Row(w.item.spotify_id, Dumps(w.album), t1,
                                      t2 + CacheTimeTicks))
                  /\ w' = [w EXCEPT !.last_refresh = t1,
                                    !.expires_at = t2 + CacheTimeTicks]
                  /\ wpc' = "cache_set"
                  /\ call' = [call EXCEPT !.writes = @ + 1]
                  /\ UNCHANGED log
             ELSE /\ Raised("Exception")
                  /\ UNCHANGED store
    /\ UNCHANGED <<queue, set, done, discovered_artists, stats, cache,
                   update_time, clock, tz, ppc, pitem, put_ret, submits,
                   clears, tpc, started>>

\* insert_album, lines 170-171: cache.set(cache_key, 1, expirein=0)
W_cache_set ==
    /\ wpc = "cache_set"
    /\ \E ok \in Outcomes :
          IF ok
          THEN /\ cache' = [cache EXCEPT ![CacheKey(w.item.spotify_id)] =
                               [present |-> TRUE, expire |-> -1]]
               /\ wpc' = "expireat"
               /\ call' = [call EXCEPT !.writes = @ + 1]
               /\ UNCHANGED <<w, log>>
          ELSE /\ Raised("Exception")
               /\ UNCHANGED cache
    /\ UNCHANGED <<queue, set, done, discovered_artists, stats, store,
                   update_time, clock, utc, tz, ppc, pitem, put_ret,
                   submits, clears, tpc, started>>

\* insert_album, line 174: the counter of inserted albums
CountInsertedNever(st) == st

CountInserted(st) == [st EXCEPT !.albums_inserted = @ + 1]

\* insert_album, lines 172-174: cache.expireat, which does nothing to a key
\* that is gone, and the counter
W_expireat ==
    /\ wpc = "expireat"
    /\ \E ok \in Outcomes :
          IF ok
          THEN /\ cache' = [cache EXCEPT ![CacheKey(w.item.spotify_id)] =
                               IF @.present
                               THEN [@ EXCEPT !.expire = Timestamp(w.expires_at, tz)]
                               ELSE @]
               /\ stats' = CountInserted(stats)
               /\ wpc' = "report"
               /\ call' = [call EXCEPT !.writes = @ + 1, !.outcome = "inserted"]
               /\ UNCHANGED <<w, log>>
          ELSE /\ Raised("Exception")
               /\ UNCHANGED <<cache, stats>>
    /\ UNCHANGED <<queue, set, done, discovered_artists, store, update_time,
                   clock, utc, tz, ppc, pitem, put_ret, submits, clears,
                   tpc, started>>

\* run, lines 196-198: the two readings of monotonic, and update_metrics,
\* whose metrics.set may raise once update_time has been moved
W_report ==
    /\ wpc = "report"
    /\ \E t \in ClockReadings(clock) :
          IF t > update_time
          THEN \E t2 \in ClockReadings(t) : \E ok \in Outcomes :
                  /\ clock' = t2
                  /\ update_time' = t2 + UPDATE_INTERVAL
                  /\ IF ok
                     THEN /\ log' = [log EXCEPT !.reports = @ + 1]
                          /\ wpc' = "loop"
                          /\ w' = NoLocals
                          /\ call' = NoCall
                     ELSE Raised("Exception")
          ELSE /\ clock' = t
               /\ wpc' = "loop"
               /\ w' = NoLocals
               /\ call' = NoCall
               /\ UNCHANGED <<update_time, log>>
    /\ UNCHANGED <<queue, set, done, discovered_artists, stats, cache, store,
                   utc, tz, ppc, pitem, put_ret, submits, clears, tpc, started>>

\* ------------------------------------------------------------------------
\* Specifications
\* ------------------------------------------------------------------------

\* the thread that calls add_spotify_ids in Spec; in SpecConc every thread of
\* Producers does
Callers == {"p1"}

\* add_spotify_ids called by these threads
Producer(threads) ==
    \/ \E p \in threads, album_id \in AlbumUrls, priority \in Priorities :
          P_call(p, album_id, priority)
    \/ \E p \in threads : P_test(p)
    \/ \E p \in threads : P_enqueue(p)
    \/ \E p \in threads : P_add(p)

\* the worker thread: run()
Worker ==
    \/ W_start
    \/ W_loop
    \/ W_dequeue
    \/ W_remove
    \/ W_gate
    \/ W_album
    \/ W_tracks
    \/ W_next
    \/ W_discover
    \/ W_expand
    \/ W_put
    \/ W_put_enqueue
    \/ W_put_add
    \/ W_insert
    \/ W_cache_set
    \/ W_expireat
    \/ W_report

\* terminate()
Terminate ==
    \/ T_call
    \/ T_check
    \/ T_join

\* the statements of the producer threads, of the worker thread, of the
\* caller of start() and of the caller of terminate() interleave
Next ==
    \/ Start
    \/ Producer(Callers)
    \/ Worker
    \/ Terminate

Spec == Init /\ [][Next]_vars

\* the threads are scheduled fairly: the worker thread and the thread inside
\* terminate() take their next step when they can; no caller has to call
\* start, add_spotify_ids or terminate
FairSpec == Spec /\ WF_vars(Worker) /\ WF_vars(T_check) /\ WF_vars(T_join)

\* the cache loses keys (expiry, eviction) between the calls
NextCache ==
    \/ Start
    \/ Producer(Callers) /\ submits' <= MaxCacheSubmits
    \/ Worker
    \/ Terminate
    \/ \E a \in AlbumIds : CacheDrop(CacheKey(a))

SpecCache == Init /\ [][NextCache]_vars

\* time passes whatever the threads do
NextTime ==
    \/ Next
    \/ Tick

SpecTime == Init /\ [][NextTime]_vars

FairSpecTime ==
    SpecTime /\ WF_vars(Worker) /\ WF_vars(T_check) /\ WF_vars(T_join)

\* nobody calls terminate()
NextRun ==
    \/ Start
    \/ Producer(Callers)
    \/ Worker

SpecRun == Init /\ [][NextRun]_vars

FairSpecRun == SpecRun /\ WF_vars(Worker)

\* the crawl: no call of an external service raises, no cache key is lost
\* and nobody calls terminate()
Crawl ==
    /\ Worker
    /\ log'.tracebacks - log'.key_errors = log.tracebacks - log.key_errors

NextCrawl ==
    \/ Start
    \/ Producer(Callers)
    \/ Crawl

SpecCrawl == Init /\ [][NextCrawl]_vars

FairSpecCrawl == SpecCrawl /\ WF_vars(Crawl)

\* several producer threads call add_spotify_ids while the worker thread runs
NextConc ==
    \/ Start
    \/ Producer(Producers)
    \/ Worker
    \/ Terminate

SpecConc == Init /\ [][NextConc]_vars

\* ------------------------------------------------------------------------
\* Properties
\* ------------------------------------------------------------------------

Pending(d) == CopiesIn(d, queue) > 0

InFlight == w.item # NoItem

\* the step is line 40 of the put of producer p
TestStep(p) == ppc[p] = "test" /\ ppc'[p] # "test"

\* the step is line 40 of a put of discover_albums
DiscoveryTestStep ==
    /\ wpc = "put"
    /\ w.albums # <<>>
    /\ wpc' = "put_enqueue" \/ w'.albums # w.albums

\* the item the worker's put is about
DiscoveryItem == JobItem(DISCOVERED_ALBUM_PRIORITY, Head(w.albums))

\* C1: the queue never holds two pending items with the same entry_id,
\* whatever their priorities.
C1_OneEntryPerId ==
    \A d \in BagToSet(queue), e \in BagToSet(queue) :
        d.spotify_id = e.spotify_id => d = e /\ CopiesIn(d, queue) = 1

\* C2: when an Incoming and a Discovered item are both pending, get returns
\* an Incoming one and every Discovered one stays pending, whatever the ids.
C2_IncomingFirst ==
    [][ (/\ wpc = "get"
         /\ wpc' = "remove"
         /\ \E d \in BagToSet(queue) : d.priority = INCOMING_ALBUM_PRIORITY
         /\ \E d \in BagToSet(queue) : d.priority = DISCOVERED_ALBUM_PRIORITY)
        => /\ w'.item.priority = INCOMING_ALBUM_PRIORITY
           /\ Pending(w'.item)
           /\ \A d \in BagToSet(queue) :
                 d.priority = DISCOVERED_ALBUM_PRIORITY
                 => CopiesIn(d, queue') = CopiesIn(d, queue)
      ]_vars

\* Incoming b was taken while Discovered a, the smaller id, stays pending
C2_Witness ==
    /\ wpc = "gate"
    /\ w.item = JobItem(INCOMING_ALBUM_PRIORITY, IdB)
    /\ Pending(JobItem(DISCOVERED_ALBUM_PRIORITY, IdA))

\* entry_id of d is pending with a priority that is not d's
PendingOtherwise(d) ==
    \E e \in BagToSet(queue) :
        e.spotify_id = d.spotify_id /\ e.priority # d.priority

\* C3: a submission of an entry_id that is pending with another priority
\* returns false and leaves the size of the queue as it is.
C3_SecondPriorityDropped ==
    [][ \A p \in Producers :
           (TestStep(p) /\ PendingOtherwise(pitem[p]))
           => /\ put_ret'[p] = <<FALSE>>
              /\ QueueSize(queue') = QueueSize(queue)
      ]_vars

\* C4: once get has returned the item of entry_id X, the first put of X that
\* follows, by add_spotify_ids or by discover_albums, X being still
\* processed, goes through: it passes line 40, so that it returns true and X
\* is pending again.
C4_ResubmitById ==
    [][ (InFlight /\ wpc # "remove" /\ w.reput = {})
        => /\ \A p \in Producers :
                 (TestStep(p) /\ pitem[p].spotify_id = w.item.spotify_id)
                 => ppc'[p] = "enqueue"
           /\ (DiscoveryTestStep /\ Head(w.albums) = w.item.spotify_id)
              => wpc' = "put_enqueue"
      ]_vars

\* no put and no get is in the middle of its statements
Quiescent ==
    /\ \A p \in Producers : ppc[p] = "idle"
    /\ wpc \notin {"remove", "put_enqueue", "put_add"}

\* C5: when producer threads race to put an equal item, the PriorityQueue
\* ends up with exactly one entry of it (exactly one of the puts goes
\* through).
C5_OneEntryUnderRace ==
    \A p \in Producers :
        (ppc[p] = "idle" /\ put_ret[p] = <<TRUE>> /\ Pending(pitem[p]))
        => CopiesIn(pitem[p], queue) = 1

\* C6: under every interleaving of puts with the worker's get, whenever no
\* put or get is mid-execution the membership set holds exactly the items of
\* the PriorityQueue (so that get never fails on set.remove and no item stays
\* in the set after it left the queue).
C6_SetMatchesQueue ==
    Quiescent => set = BagToSet(queue)

\* C7: when the cache holds a marker for the id at line 178,
\* process_spotify_id ends there, by returning or because cache.get raised:
\* no Spotify call, no call of discover_albums, no write to the table or the
\* cache, counters and queue untouched.
C7_CacheGate ==
    [][ (/\ wpc = "gate"
         /\ wpc' # "gate"
         /\ cache[CacheKey(w.item.spotify_id)].present)
        => /\ wpc' \in {"report", "loop"}
           /\ wpc' = "loop" => log'.tracebacks = log.tracebacks + 1
           /\ call'.api = 0
           /\ call'.expands = 0
           /\ call'.writes = 0
           /\ UNCHANGED <<store, cache, stats, discovered_artists, queue, set>>
      ]_vars

\* process_spotify_id has returned at the cache gate
C7_Witness ==
    /\ wpc = "report"
    /\ call.cached
    /\ call.api = 0
    /\ stats.albums_inserted > 0

\* C8: an exception raised while an item is processed is logged and leaves
\* the worker in its loop with the pending items untouched; and every item
\* that is pending after a call of an external service has failed is
\* dequeued and processed later in the same run of the loop:
\* process_spotify_id is called with it, unless the loop is asked to stop.
C8_FailureIsolation ==
    /\ [][ log'.tracebacks # log.tracebacks
           => /\ wpc' = "loop"
              /\ log'.tracebacks = log.tracebacks + 1
              /\ ~log'.finished
              /\ UNCHANGED <<queue, set, done>>
         ]_vars
    /\ \A d \in [priority : Priorities, spotify_id : AlbumIds] :
          (log.tracebacks - log.key_errors > 0 /\ Pending(d))
          ~> (done \/ (wpc = "gate" /\ w.item = d))

\* C9: once terminate() waits in join(), run() returns and join() returns.
C9_StopReturns ==
    (tpc = "join") ~> (wpc = "finished" /\ tpc = "returned")

\* C10 as stated: once self.done is set the worker dequeues no further item.
C10_NoGetAfterStop ==
    [][ done => ~(wpc = "get" /\ wpc' = "remove") ]_vars

\* C10 amended: once self.done is set the worker never passes the loop test
\* of line 191 again and so never enters get() again: it completes the item
\* in flight, or, when it had passed the test and was in get(), dequeues one
\* item and completes that one; then it leaves the loop. Every other pending
\* item, and every item submitted later, is never processed by this worker.
C10_NoLoopAfterStop ==
    [][ done => /\ (wpc # "get" => wpc' # "get")
                /\ (wpc = "loop" => wpc' \in {"loop", "finished"})
      ]_vars

\* the worker has stopped and left items in the queue
C10_Witness ==
    /\ wpc = "finished"
    /\ tpc = "returned"
    /\ queue # EmptyBag

\* C11: every successful upsert for X, the first one and every later one
\* (the cache marker of X having been cleared in between), leaves the table
\* with exactly one row for X, holding the payload, last_refresh and
\* expires_at of this write; the rows of the other album ids are as before,
\* and nothing else changes the table.
C11_IdempotentPersistence ==
    [][ /\ \A a \in AlbumIds : Cardinality(RowsOf(store', a)) <= 1
        /\ store' # store => (wpc = "insert" /\ wpc' = "cache_set")
        /\ (wpc = "insert" /\ wpc' = "cache_set")
           => /\ RowsOf(store', w.item.spotify_id)
                    = {Row(w.item.spotify_id, Dumps(w.album),
                           w'.last_refresh, w'.expires_at)}
              /\ \A r \in store \cup store' :
                    r.album_id # w.item.spotify_id
                    => (r \in store <=> r \in store')
      ]_vars

\* the same album was written twice, the second time at a later instant, and
\* no call failed
C11_Witness ==
    /\ stats.albums_inserted = 2
    /\ Cardinality(store) = 1
    /\ \E r \in store : r.last_refresh > 0
    /\ clears > 0
    /\ log.tracebacks = 0

\* C12: discovered_artists never shrinks; discover_albums adds the artist to
\* it before its first request, also when that request or a later page
\* fails; and a call of discover_albums for an artist in the set makes no
\* request and no put. So the albums of an artist are requested during at
\* most one call of discover_albums in the life of the worker.
C12_DiscoveryIdempotence ==
    [][ /\ discovered_artists \subseteq discovered_artists'
        /\ (W_discover /\ w.todo # <<>>)
           => IF Head(w.todo) \in discovered_artists
              THEN /\ call'.api = call.api
                   /\ call'.expands = call.expands + 1
                   /\ wpc' = "discover"
                   /\ UNCHANGED <<queue, set, stats, discovered_artists>>
              ELSE Head(w.todo) \in discovered_artists'
        /\ (wpc' \in {"expand", "put", "put_enqueue", "put_add"} /\ w'.todo # <<>>)
           => Head(w'.todo) \in discovered_artists'
      ]_vars

\* discover_albums was called again, and returned at once, for an artist
\* whose enumeration had failed before any of its albums was put
C12_Witness ==
    /\ wpc = "discover"
    /\ w.todo = <<"q">>
    /\ call.expands = 1
    /\ call.api = 3
    /\ "p" \in discovered_artists
    /\ stats.discovered_albums = 0
    /\ log.tracebacks > 0

\* the artists with a non-empty id of the tracks of all pages of an album
ListedArtists(album_id) ==
    UNION { { ArtistsOf(TrackPages(album_id)[i])[j] :
                j \in 1..Len(ArtistsOf(TrackPages(album_id)[i])) } :
            i \in 1..Len(TrackPages(album_id)) }

\* C13: when fetch_album returns the album, discover_albums has been called
\* for every artist with a non-empty id of every track of every page (so
\* each of them is in discovered_artists), whether the track listing has one
\* page or several.
C13_DiscoveryCoverage ==
    [][ (wpc \in {"tracks", "next"} /\ wpc' = "insert")
        => ListedArtists(w.item.spotify_id) \subseteq discovered_artists'
      ]_vars

\* C14 as stated: a failing step leaves the queue as it is, and when the
\* processing of X fails no entry of X in the queue was put there by the
\* pipeline: X is pending only when an external caller submitted it.
C14_NoRequeue ==
    [][ log'.tracebacks # log.tracebacks
        => /\ UNCHANGED <<queue, set>>
           /\ InFlight
              => ~(/\ w.own_put
                   /\ CopiesIn(JobItem(DISCOVERED_ALBUM_PRIORITY,
                                        w.item.spotify_id), queue') > 0)
      ]_vars

\* C14 amended: a failure is only logged. get has taken the entry of the
\* item out of the queue; the failing step and the handler leave the queue
\* and the membership set as they are and drop the item in flight. An entry
\* enters the queue only at line 41 of a put, made by add_spotify_ids or by
\* discover_albums: the only puts of the pipeline are those of
\* discover_albums, at Discovered priority, of the albums of the artist
\* being expanded, and the album being processed can be one of them.
C14_NoRequeueByHandler ==
    [][ /\ (wpc = "get" /\ wpc' = "remove")
           => queue = queue' (+) SetToBag({w'.item})
        /\ log'.tracebacks # log.tracebacks
           => /\ UNCHANGED <<queue, set>>
              /\ w' = NoLocals
        /\ (\E d \in BagToSet(queue') : CopiesIn(d, queue') > CopiesIn(d, queue))
           => \/ \E p \in Producers :
                    /\ ppc[p] = "enqueue"
                    /\ ppc'[p] = "add"
                    /\ queue' = queue (+) SetToBag({pitem[p]})
              \/ /\ W_put_enqueue
                 /\ queue' = queue (+) SetToBag({DiscoveryItem})
                 /\ \E i \in 1..Len(ArtistAlbumPages(Head(w.todo))) :
                    \E j \in 1..Len(ArtistAlbumPages(Head(w.todo))[i]) :
                       ArtistAlbumPages(Head(w.todo))[i][j] = Head(w.albums)
      ]_vars

\* the processing of a, the only album submitted, has failed after its own
\* discovery had put a at Discovered priority
C14_Witness ==
    /\ log.tracebacks > 0
    /\ wpc = "loop"
    /\ submits = 1
    /\ store = {}
    /\ stats.discovered_albums > 0
    /\ Pending(JobItem(DISCOVERED_ALBUM_PRIORITY, IdA))

\* the instant t of the wall clock, in whole seconds since the epoch
EpochSeconds(t) == t \div TicksPerSecond

\* C15: outside the two cache calls of insert_album, a marker in the cache
\* has an expiry, and it is the expires_at of the row of its album (in whole
\* seconds, the resolution of the cache), also after a step has failed.
C15_ExpiryLockStep ==
    \A a \in AlbumIds :
        (/\ cache[CacheKey(a)].present
         /\ ~(wpc = "expireat" /\ w.item.spotify_id = a))
        => /\ cache[CacheKey(a)].expire # -1
           /\ \E r \in RowsOf(store, a) :
                 cache[CacheKey(a)].expire = EpochSeconds(r.expires_at)

\* the largest number of reports the clock of the model allows
MaxReports == MaxClock \div UPDATE_INTERVAL

\* C16: while the worker runs and is not asked to stop, whenever the clock
\* has passed update_time the counters are reported, also when the queue is
\* empty and when items fail.
C16_PeriodicReport ==
    \A n \in 0..MaxReports :
        (/\ wpc \notin {"init", "finished"}
         /\ ~done
         /\ clock > update_time
         /\ log.reports = n)
        ~> (done \/ log.reports > n)

\* C17: when a request for a further page of an artist's albums fails, the
\* item being processed fails, and every album of the pages retrieved before
\* has been submitted at Discovered priority, so that it is pending.
C17_PartialDiscovery ==
    [][ (wpc = "expand" /\ log'.tracebacks # log.tracebacks)
        => /\ wpc' = "loop"
           /\ \A i \in 1..Len(w.albums) :
                 CopiesIn(JobItem(DISCOVERED_ALBUM_PRIORITY, w.albums[i]),
                          queue') > 0
      ]_vars

\* C18: the counter of discovered albums changes only at the return of a put
\* of discover_albums that returns true, and then by one; a put of
\* discover_albums whose item is already pending returns false and leaves
\* the counter and the queue alone; and no step of add_spotify_ids changes
\* the counter.
C18_DiscoveredCounter ==
    [][ /\ stats'.discovered_albums # stats.discovered_albums
           => /\ W_put_add
              /\ DiscoveryItem \in set'
              /\ Pending(DiscoveryItem)
        /\ (wpc = "put_add" /\ wpc' # "put_add")
           => stats'.discovered_albums = stats.discovered_albums + 1
        /\ DiscoveryTestStep
           => /\ stats'.discovered_albums = stats.discovered_albums
              /\ Pending(DiscoveryItem)
                 => /\ wpc' = "put"
                    /\ w'.albums = Tail(w.albums)
                    /\ queue' = queue
        /\ (submits' # submits \/ ppc' # ppc)
           => stats'.discovered_albums = stats.discovered_albums
      ]_vars

\* C19: the counter of inserted albums never decreases; it grows only at the
\* end of insert_album, by one, in a call that has fetched the album, written
\* the row and made both cache calls, and every such call grows it; a call
\* stopped at the cache gate and a call that fails leave it alone.
C19_InsertedCounter ==
    [][ /\ stats'.albums_inserted >= stats.albums_inserted
        /\ stats'.albums_inserted # stats.albums_inserted
           => /\ wpc = "expireat"
              /\ wpc' = "report"
              /\ stats'.albums_inserted = stats.albums_inserted + 1
              /\ call'.api >= 2
              /\ call'.writes = 3
              /\ RowsOf(store, w.item.spotify_id) # {}
        /\ (wpc = "expireat" /\ wpc' = "report")
           => stats'.albums_inserted = stats.albums_inserted + 1
        /\ (wpc = "gate" /\ wpc' = "report")
           => stats'.albums_inserted = stats.albums_inserted
        /\ log'.tracebacks # log.tracebacks
           => stats'.albums_inserted = stats.albums_inserted
      ]_vars

\* one call has inserted, one has failed and one was stopped at the cache
\* gate: the counter is one
C19_Witness ==
    /\ wpc = "report"
    /\ call.cached
    /\ log.tracebacks = 1
    /\ stats.albums_inserted = 1

\* C20: a marker in the cache has a row in the table: insert_album writes the
\* row before the marker. A step of fetch_album, discover_albums or of the
\* upsert that fails leaves the cache as it is, with no marker for the album
\* being processed.
C20_PersistBeforeCache ==
    [][ /\ \A a \in AlbumIds :
              cache'[CacheKey(a)].present => RowsOf(store', a) # {}
        /\ (/\ log'.tracebacks # log.tracebacks
            /\ wpc \in {"album", "tracks", "next", "discover", "expand", "insert"})
           => /\ cache' = cache
              /\ ~cache'[CacheKey(w.item.spotify_id)].present
      ]_vars

\* a has its row and its marker; the processing of b, which the discovery
\* had put, has failed, and b has neither row nor marker
C20_Witness ==
    /\ wpc = "loop"
    /\ log.tracebacks = 1
    /\ cache[CacheKey(IdA)].present
    /\ RowsOf(store, IdA) # {}
    /\ stats.discovered_albums = 3
    /\ ~Pending(JobItem(DISCOVERED_ALBUM_PRIORITY, IdB))
    /\ RowsOf(store, IdB) = {}
    /\ ~cache[CacheKey(IdB)].present

\* C21: with a finite catalog, finitely many submissions, no failing call,
\* no lost cache key and no terminate(), the worker, once started, ends up
\* waiting in get() on a queue that is empty and stays empty: an album that
\* has a row and a marker is never fetched again, and the albums of an
\* artist in discovered_artists are never requested again.
C21_CrawlTerminates ==
    /\ [](started => <>[](queue = EmptyBag /\ wpc = "get"))
    /\ [][ (wpc = "album" /\ wpc' = "tracks")
           => /\ RowsOf(store, w.item.spotify_id) = {}
              /\ ~cache[CacheKey(w.item.spotify_id)].present
         ]_vars
    /\ [][ (wpc = "discover" /\ wpc' = "expand")
           => Head(w.todo) \notin discovered_artists
         ]_vars

\* the three albums of the catalog, which has the cycle a - p - a, were
\* inserted, both artists were expanded, and the worker waits on the empty
\* queue
C21_Witness ==
    /\ queue = EmptyBag
    /\ wpc = "get"
    /\ stats.albums_inserted = 3
    /\ Cardinality(store) = 3
    /\ discovered_artists = {"p", "q"}
    /\ submits > 0

====
